---- MODULE Spec2Model ----
(***************************************************************************)
(* A model of the easy-converter utilities:                                *)
(*   image_to_pdf.py  ImageToPdfConverter and its command line,            *)
(*   word_to_pdf.py   convert_word_to_pdf and its engines,                 *)
(*   pdf_to_word.py   convert_pdf_to_word,                                 *)
(*   main.py          process_single / process_batch.                      *)
(* Real-valued quantities (points, inches, scale factors) are exact        *)
(* rationals <<n, d>> with d > 0 in lowest terms; the Python code computes *)
(* the same expressions in binary floating point.                          *)
(***************************************************************************)
EXTENDS Integers, Sequences, FiniteSets, TLC

VARIABLES
    op,         \* the operation that ran last ("none" before any)
    inp,        \* the arguments and environment facts that operation was given
    converter,  \* the ImageToPdfConverter object: page_size and margin, or NoConverter
    canvas,     \* the pages of the PDF document the last image operation saved
    ret,        \* the value the last operation returned
    raised,     \* TRUE when an exception left the last operation
    stdout,     \* the lines the last operation printed
    exit,       \* the process exit status a command line ended with, or NoExit
    attempted,  \* the engines the last document operation called, in order, with their results
    processed   \* per file a driver converted: the file and what its conversion returned

vars == <<op, inp, converter, canvas, ret, raised, stdout, exit, attempted, processed>>

\* --------------------------------------------------------------- bounds

\* longest list of image paths handed to one operation
MaxImages == 3
\* largest image width or height, in hundreds of pixels
MaxDim == 3
\* longest folder listing handed to process_batch
MaxFiles == 2

\* ------------------------------------------------------------ rationals

RECURSIVE Gcd(_, _)
Gcd(a, b) == IF b = 0 THEN a ELSE Gcd(b, a % b)

Abs(n) == IF n < 0 THEN -n ELSE n

\* n/d in lowest terms with a positive denominator (d # 0)
Rat(n, d) ==
    LET g == Gcd(Abs(n), Abs(d))
        s == IF d < 0 THEN -1 ELSE 1
    IN  <<(s * n) \div g, (s * d) \div g>>

RInt(n) == <<n, 1>>

\* The operators below take each argument's value once (x, y stand for a, b).
RAdd(a, b) ==
    CHOOSE r \in {Rat(x[1] * y[2] + y[1] * x[2], x[2] * y[2]) : x \in {a}, y \in {b}} : TRUE
RSub(a, b) ==
    CHOOSE r \in {Rat(x[1] * y[2] - y[1] * x[2], x[2] * y[2]) : x \in {a}, y \in {b}} : TRUE
RMul(a, b) ==
    CHOOSE r \in {Rat(x[1] * y[1], x[2] * y[2]) : x \in {a}, y \in {b}} : TRUE
\* a / b, b not zero (Python raises ZeroDivisionError on a zero divisor)
RDiv(a, b) ==
    CHOOSE r \in {Rat(x[1] * y[2], x[2] * y[1]) : x \in {a}, y \in {b}} : TRUE
RLe(a, b) == \E x \in {a}, y \in {b} : x[1] * y[2] <= y[1] * x[2]
RLt(a, b) == \E x \in {a}, y \in {b} : x[1] * y[2] < y[1] * x[2]
RMin(a, b) ==
    CHOOSE r \in {IF x[1] * y[2] <= y[1] * x[2] THEN x ELSE y : x \in {a}, y \in {b}} : TRUE
RMax(a, b) ==
    CHOOSE r \in {IF x[1] * y[2] <= y[1] * x[2] THEN y ELSE x : x \in {a}, y \in {b}} : TRUE
RPos(a) == a[1] > 0
RIsZero(a) == a[1] = 0

\* -------------------------------------------------------------- strings
\* A string is a sequence of one-character strings.

UpperChar(c) ==
    CASE c = "a" -> "A" [] c = "e" -> "E" [] c = "l" -> "L" [] c = "r" -> "R"
      [] c = "t" -> "T" [] c = "x" -> "X" [] c = "b" -> "B"
      [] OTHER -> c

\* str.upper()
Upper(s) == [i \in 1..Len(s) |-> UpperChar(s[i])]

Digits == {"0", "1", "2", "3", "4", "5", "6", "7", "8", "9"}

DigitVal(c) ==
    CASE c = "0" -> 0 [] c = "1" -> 1 [] c = "2" -> 2 [] c = "3" -> 3
      [] c = "4" -> 4 [] c = "5" -> 5 [] c = "6" -> 6 [] c = "7" -> 7
      [] c = "8" -> 8 [] c = "9" -> 9

AllDigits(s) == \A i \in 1..Len(s) : s[i] \in Digits

RECURSIVE DigitsVal(_)
DigitsVal(s) ==
    IF Len(s) = 0 THEN 0
    ELSE 10 * DigitsVal(SubSeq(s, 1, Len(s) - 1)) + DigitVal(s[Len(s)])

RECURSIVE Pow10(_)
Pow10(k) == IF k = 0 THEN 1 ELSE 10 * Pow10(k - 1)

\* the index of the first c in s, or 0
RECURSIVE IndexOf(_, _, _)
IndexOf(s, c, i) ==
    IF i > Len(s) THEN 0 ELSE IF s[i] = c THEN i ELSE IndexOf(s, c, i + 1)

\* str.split(sep) for a one-character separator
RECURSIVE Split(_, _)
Split(s, sep) ==
    LET k == IndexOf(s, sep, 1)
    IN  IF k = 0 THEN <<s>>
        ELSE <<SubSeq(s, 1, k - 1)>> \o Split(SubSeq(s, k + 1, Len(s)), sep)

\* float(s) on strings of sign, digits and one decimal point: [ok, val].
\* ok = FALSE stands for the ValueError float() raises.
ParseFloat(s) ==
    LET neg  == Len(s) > 0 /\ s[1] = "-"
        body == IF Len(s) > 0 /\ s[1] \in {"-", "+"} THEN SubSeq(s, 2, Len(s)) ELSE s
        dot  == IndexOf(body, ".", 1)
        ip   == IF dot = 0 THEN body ELSE SubSeq(body, 1, dot - 1)
        fp   == IF dot = 0 THEN <<>> ELSE SubSeq(body, dot + 1, Len(body))
        good == AllDigits(ip) /\ AllDigits(fp) /\ Len(ip) + Len(fp) > 0
        mag  == Rat(DigitsVal(ip) * Pow10(Len(fp)) + DigitsVal(fp), Pow10(Len(fp)))
    IN  IF good
        THEN [ok |-> TRUE, val |-> IF neg THEN RSub(RInt(0), mag) ELSE mag]
        ELSE [ok |-> FALSE, val |-> RInt(0)]

\* ------------------------------------------------------- page geometry

\* reportlab.lib.units.inch: points per inch
inch == 72

\* reportlab.lib.pagesizes.A4: 210 mm by 297 mm, a millimetre being inch/25.4
A4 == <<Rat(210 * inch * 10, 254), Rat(297 * inch * 10, 254)>>

\* reportlab.lib.pagesizes.letter: 8.5 in by 11 in
letter == <<Rat(85 * inch, 10), RInt(11 * inch)>>

NoConverter == [page_size |-> <<>>, margin |-> <<>>]

\* ImageToPdfConverter._get_page_size: the page size and what it prints
GetPageSize(page_size) ==
    IF Upper(page_size) = <<"A", "4">> THEN [size |-> A4, out |-> <<>>]
    ELSE IF Upper(page_size) = <<"L", "E", "T", "T", "E", "R">>
    THEN [size |-> letter, out |-> <<>>]
    ELSE LET parts == Split(page_size, "x")
             \* width, height = map(float, parts): any other count of parts, or a
             \* part float() rejects, raises ValueError inside the try
             unpacks == Len(parts) = 2 /\ ParseFloat(parts[1]).ok /\ ParseFloat(parts[2]).ok
         IN  IF unpacks
             THEN [size |-> <<RMul(ParseFloat(parts[1]).val, RInt(inch)),
                              RMul(ParseFloat(parts[2]).val, RInt(inch))>>,
                   out |-> <<>>]
             ELSE [size |-> A4, out |-> <<<<"invalid_page_size", page_size>>>>]

\* ImageToPdfConverter.__init__: margin is given in inches
NewConverter(page_size, margin) ==
    [page_size |-> GetPageSize(page_size).size, margin |-> RMul(margin, RInt(inch))]

\* ------------------------------------------------------------ placement

SinglePlacementOffCentre(self, img) ==
    LET page_width == self.page_size[1]
        page_height == self.page_size[2]
        scale_x == RDiv(RSub(page_width, RMul(RInt(2), self.margin)), RInt(img.w))
        scale_y == RDiv(RSub(page_height, RMul(RInt(2), self.margin)), RInt(img.h))
        scale == RMin(scale_x, scale_y)
        final_width == RMul(RInt(img.w), scale)
        final_height == RMul(RInt(img.h), scale)
    IN  [x |-> self.margin, y |-> self.margin,
         width |-> final_width, height |-> final_height]

\* convert_single_image, lines 37-47: where the image is drawn
SinglePlacement(self, img) ==
    LET page_width == self.page_size[1]
        page_height == self.page_size[2]
        scale_x == RDiv(RSub(page_width, RMul(RInt(2), self.margin)), RInt(img.w))
        scale_y == RDiv(RSub(page_height, RMul(RInt(2), self.margin)), RInt(img.h))
        scale == RMin(scale_x, scale_y)
        final_width == RMul(RInt(img.w), scale)
        final_height == RMul(RInt(img.h), scale)
        x == RDiv(RSub(page_width, final_width), RInt(2))
        y == RDiv(RSub(page_height, final_height), RInt(2))
    IN  [x |-> x, y |-> y, width |-> final_width, height |-> final_height]

VerticalPlacementFill(self, img, page_width, page_height) ==
    LET scale_x == RDiv(RSub(page_width, RMul(RInt(2), self.margin)), RInt(img.w))
        scale_y == RDiv(RSub(page_height, RMul(RInt(2), self.margin)), RInt(img.h))
        scale == RMax(scale_x, scale_y)
        final_width == RMul(RInt(img.w), scale)
        final_height == RMul(RInt(img.h), scale)
        x == RDiv(RSub(page_width, final_width), RInt(2))
        y == RDiv(RSub(page_height, final_height), RInt(2))
    IN  [x |-> x, y |-> y, width |-> final_width, height |-> final_height]

\* _create_vertical_layout, lines 96-104: where the image is drawn
VerticalPlacement(self, img, page_width, page_height) ==
    LET scale_x == RDiv(RSub(page_width, RMul(RInt(2), self.margin)), RInt(img.w))
        scale_y == RDiv(RSub(page_height, RMul(RInt(2), self.margin)), RInt(img.h))
        scale == RMin(scale_x, scale_y)
        final_width == RMul(RInt(img.w), scale)
        final_height == RMul(RInt(img.h), scale)
        x == RDiv(RSub(page_width, final_width), RInt(2))
        y == RDiv(RSub(page_height, final_height), RInt(2))
    IN  [x |-> x, y |-> y, width |-> final_width, height |-> final_height]

\* --------------------------------------------------------------- canvas
\* reportlab's Canvas as the converter uses it: pages are the pages closed so
\* far, code is what has been drawn on the page being built.

\* canvas.Canvas(output_path, pagesize=...)
NewCanvas == [pages |-> <<>>, code |-> <<>>]

\* Canvas.showPage: close the current page, start an empty one
ShowPage(c) == [pages |-> Append(c.pages, c.code), code |-> <<>>]

\* Canvas.drawImage(path, x, y, width, height)
DrawImage(c, img, p) ==
    [c EXCEPT !.code = Append(@, [image |-> img.path, x |-> p.x, y |-> p.y,
                                  width |-> p.width, height |-> p.height])]

\* Canvas.save: "if there is current data a ShowPage is executed automatically"
Save(c) == IF Len(c.code) > 0 THEN ShowPage(c) ELSE c

\* no document was written
NoDoc == <<>>

\* --------------------------------------------------------------- values

RetNone == [kind |-> "None"]
RetPath(p) == [kind |-> "path", path |-> p]
RetBool(b) == [kind |-> "bool", val |-> b]

NoExit == "none"
NoInput == [none |-> TRUE]

\* Path(p).with_suffix(ext)
WithSuffix(path, ext) == [stem |-> path.stem, ext |-> ext]

\* ----------------------------------------------------------- image files
\* An image argument is its path with the facts of the file behind it: isfile
\* (os.path.isfile), opens (Image.open succeeds), draws (the pixel data can be
\* read and drawn), and the pixel size Image.open reports.

ImageDims == {100 * k : k \in 1..MaxDim}

GoodImage(w, h) ==
    [path |-> [stem |-> <<"img", w, h>>, ext |-> ".png"],
     isfile |-> TRUE, opens |-> TRUE, draws |-> TRUE, w |-> w, h |-> h]

Landscape == GoodImage(200, 100)
Portrait == GoodImage(100, 200)
Missing ==
    [path |-> [stem |-> <<"missing", 0, 0>>, ext |-> ".png"],
     isfile |-> FALSE, opens |-> FALSE, draws |-> FALSE, w |-> 0, h |-> 0]
NotImage ==
    [path |-> [stem |-> <<"notes", 0, 0>>, ext |-> ".png"],
     isfile |-> TRUE, opens |-> FALSE, draws |-> FALSE, w |-> 0, h |-> 0]
Truncated ==
    [path |-> [stem |-> <<"truncated", 100, 100>>, ext |-> ".png"],
     isfile |-> TRUE, opens |-> TRUE, draws |-> FALSE, w |-> 100, h |-> 100]

GoodImages == {GoodImage(w, h) : w \in ImageDims, h \in ImageDims}
BadImages == {Missing, NotImage, Truncated}
ListPool == {Landscape, Portrait, NotImage, Truncated}

\* every sequence over S of length at most n
SeqsUpTo(S, n) == UNION {[1..k -> S] : k \in 0..n}

\* An output argument: given is FALSE for None; writable says whether the file
\* the operation ends up writing can be written.
OutPdf == [stem |-> <<"out", 0, 0>>, ext |-> ".pdf"]
DefaultMultiple == [stem |-> <<"output", 0, 0>>, ext |-> ".pdf"]
NoPath == [stem |-> <<"", 0, 0>>, ext |-> ""]
Output(given, writable) ==
    [given |-> given, path |-> IF given THEN OutPdf ELSE NoPath, writable |-> writable]

Layouts == {"vertical", "horizontal", "grid", "diagonal"}
KnownLayouts == {"vertical", "horizontal", "grid"}

\* ------------------------------------------------------ image operations

\* ImageToPdfConverter.convert_single_image
ConvertSingleImage(self, img, output) ==
    LET p == SinglePlacement(self, img)
        output_path == IF output.given THEN output.path ELSE WithSuffix(img.path, ".pdf")
    IN  IF img.opens /\ img.draws /\ output.writable
        THEN [canvas |-> Save(DrawImage(NewCanvas, img, p)).pages,
              ret |-> RetPath(output_path),
              out |-> <<<<"ok_single", img.path, output_path>>>>]
        ELSE \* except Exception: Image.open, drawImage or save raised
             [canvas |-> NoDoc, ret |-> RetNone, out |-> <<<<"err_single", img.path>>>>]

\* one iteration of the loop of _create_vertical_layout, then the rest
RECURSIVE VerticalLoop(_, _, _, _, _, _)
VerticalLoop(self, acc, image_paths, i, page_width, page_height) ==
    IF i > Len(image_paths) THEN acc
    ELSE LET img == image_paths[i]
             c1 == IF i > 1 THEN ShowPage(acc.c) ELSE acc.c
             step == IF img.opens /\ img.draws
                     THEN [c |-> DrawImage(c1, img,
                                   VerticalPlacement(self, img, page_width, page_height)),
                           out |-> acc.out]
                     ELSE [c |-> c1, out |-> Append(acc.out, <<"err_image", img.path>>)]
         IN  VerticalLoop(self, step, image_paths, i + 1, page_width, page_height)

\* ImageToPdfConverter._create_vertical_layout: the canvas after it, and its prints
CreateVerticalLayout(self, canvas_obj, image_paths, page_width, page_height) ==
    VerticalLoop(self, [c |-> canvas_obj, out |-> <<>>], image_paths, 1,
                 page_width, page_height)

\* ImageToPdfConverter._create_horizontal_layout
CreateHorizontalLayout(self, canvas_obj, image_paths, page_width, page_height) ==
    CreateVerticalLayout(self, canvas_obj, image_paths, page_width, page_height)

\* every image on the one page, no page break
RECURSIVE TiledLoop(_, _, _, _, _, _)
TiledLoop(self, acc, image_paths, i, page_width, page_height) ==
    IF i > Len(image_paths) THEN acc
    ELSE LET img == image_paths[i]
             step == IF img.opens /\ img.draws
                     THEN [c |-> DrawImage(acc.c, img,
                                   VerticalPlacement(self, img, page_width, page_height)),
                           out |-> acc.out]
                     ELSE [c |-> acc.c, out |-> Append(acc.out, <<"err_image", img.path>>)]
         IN  TiledLoop(self, step, image_paths, i + 1, page_width, page_height)

CreateTiledLayout(self, canvas_obj, image_paths, page_width, page_height) ==
    TiledLoop(self, [c |-> canvas_obj, out |-> <<>>], image_paths, 1,
              page_width, page_height)

\* ImageToPdfConverter._create_grid_layout
CreateGridLayout(self, canvas_obj, image_paths, page_width, page_height) ==
    CreateVerticalLayout(self, canvas_obj, image_paths, page_width, page_height)

LayoutStrict(self, c, image_paths, page_width, page_height, layout) ==
    IF layout = "vertical"
    THEN CreateVerticalLayout(self, c, image_paths, page_width, page_height)
    ELSE IF layout = "horizontal"
    THEN CreateHorizontalLayout(self, c, image_paths, page_width, page_height)
    ELSE IF layout = "grid"
    THEN CreateGridLayout(self, c, image_paths, page_width, page_height)
    ELSE [c |-> c, out |-> <<<<"unknown_layout", layout>>>>]

\* convert_multiple_images, lines 68-76: the layout the tag selects
Layout(self, c, image_paths, page_width, page_height, layout) ==
    IF layout = "vertical"
    THEN CreateVerticalLayout(self, c, image_paths, page_width, page_height)
    ELSE IF layout = "horizontal"
    THEN CreateHorizontalLayout(self, c, image_paths, page_width, page_height)
    ELSE IF layout = "grid"
    THEN CreateGridLayout(self, c, image_paths, page_width, page_height)
    ELSE LET v == CreateVerticalLayout(self, c, image_paths, page_width, page_height)
         IN  [c |-> v.c, out |-> <<<<"unknown_layout", layout>>>> \o v.out]

\* ImageToPdfConverter.convert_multiple_images
ConvertMultipleImages(self, image_paths, output, layout) ==
    LET laid == Layout(self, NewCanvas, image_paths,
                       self.page_size[1], self.page_size[2], layout)
    IN  IF output.writable
        THEN [canvas |-> Save(laid.c).pages,
              ret |-> RetPath(output.path),
              out |-> Append(laid.out, <<"ok_multi", output.path>>)]
        ELSE \* except Exception: c.save() raised
             [canvas |-> NoDoc, ret |-> RetNone, out |-> Append(laid.out, <<"err_multi">>)]

\* ------------------------------------------------- image_to_pdf.py main

\* the loop of main over args.images: the valid images and the lines printed
RECURSIVE ValidateLoop(_, _, _)
ValidateLoop(images, i, acc) ==
    IF i > Len(images) THEN acc
    ELSE LET img_path == images[i]
             step == IF img_path.isfile
                     THEN IF img_path.opens
                          THEN [acc EXCEPT !.valid_images = Append(@, img_path)]
                          ELSE [acc EXCEPT !.out = Append(@, <<"skip_notimage", img_path.path>>)]
                     ELSE [acc EXCEPT !.out = Append(@, <<"skip_notfound", img_path.path>>)]
         IN  ValidateLoop(images, i + 1, step)

\* parser.parse_args(): argparse ends the process with status 2 on no image
\* argument, a --layout outside its choices or a --margin float() rejects
ParseArgsOk(args) ==
    /\ Len(args.images) > 0
    /\ args.layout \in KnownLayouts
    /\ ParseFloat(args.margin).ok

\* main of image_to_pdf.py
ImageMain(args) ==
    IF ~ParseArgsOk(args)
    THEN [converter |-> NoConverter, canvas |-> NoDoc, ret |-> RetNone,
          out |-> <<<<"usage_error">>>>, exit |-> "2"]
    ELSE LET checked == ValidateLoop(args.images, 1, [valid_images |-> <<>>, out |-> <<>>])
             valid_images == checked.valid_images
             conv == NewConverter(args.size, ParseFloat(args.margin).val)
             warn == GetPageSize(args.size).out
             multiple == IF args.multiple.given THEN args.multiple
                         ELSE [args.multiple EXCEPT !.path = DefaultMultiple]
             r == IF Len(valid_images) = 1 /\ ~args.multiple.given
                  THEN ConvertSingleImage(conv, valid_images[1], args.output)
                  ELSE ConvertMultipleImages(conv, valid_images, multiple, args.layout)
         IN  IF Len(valid_images) = 0
             THEN [converter |-> NoConverter, canvas |-> NoDoc, ret |-> RetNone,
                   out |-> Append(checked.out, <<"no_valid">>), exit |-> "0"]
             ELSE [converter |-> conv, canvas |-> r.canvas, ret |-> r.ret,
                   out |-> checked.out \o warn \o r.out, exit |-> "0"]

\* ------------------------------------------------------------ file names
\* A file name is a string; a file argument is its name with the facts of the
\* file behind it: exists (os.path.exists / isfile) and sound (the engines can
\* read it).

LowerChar(c) ==
    CASE c = "D" -> "d" [] c = "O" -> "o" [] c = "C" -> "c" [] c = "X" -> "x"
      [] c = "P" -> "p" [] c = "F" -> "f"
      [] OTHER -> c

\* str.lower()
Lower(s) == [i \in 1..Len(s) |-> LowerChar(s[i])]

\* str.endswith(suffix)
EndsWith(s, suffix) ==
    /\ Len(s) >= Len(suffix)
    /\ SubSeq(s, Len(s) - Len(suffix) + 1, Len(s)) = suffix

\* the index of the last c in s, or 0
RECURSIVE LastIndexOf(_, _, _)
LastIndexOf(s, c, i) ==
    IF i = 0 THEN 0 ELSE IF s[i] = c THEN i ELSE LastIndexOf(s, c, i - 1)

\* pathlib's PurePath.suffix: from the last dot, unless it leads or ends the name
Suffix(name) ==
    LET i == LastIndexOf(name, ".", Len(name))
    IN  IF 1 < i /\ i < Len(name) THEN SubSeq(name, i, Len(name)) ELSE <<>>

\* pathlib's PurePath.stem
Stem(name) == SubSeq(name, 1, Len(name) - Len(Suffix(name)))

\* os.path.splitext(name)[0]: a leading dot starts no extension
SplitExtRoot(name) ==
    LET i == LastIndexOf(name, ".", Len(name))
    IN  IF i > 1 THEN SubSeq(name, 1, i - 1) ELSE name

DotDocx == <<".", "d", "o", "c", "x">>
DotDoc == <<".", "d", "o", "c">>
DotPdf == <<".", "p", "d", "f">>

\* An output argument of a document conversion: given is FALSE for None, dir is
\* the state of the directory it names ("exists", "creatable", or "blocked": a
\* path mkdir cannot create), name the file name in it.
DocOutput(given, dir, name) == [given |-> given, dir |-> dir, name |-> name]

\* Path(output_path).parent.mkdir(parents=True, exist_ok=True) raises
MkdirRaises(output) == output.given /\ output.dir = "blocked"

\* --------------------------------------------------------- word_to_pdf.py

\* convert_with_docx2pdf: [ok, out]
ConvertWithDocx2pdf(env, input, output) ==
    IF env.docx2pdf = "missing"
    THEN [ok |-> FALSE, out |-> <<<<"docx2pdf_not_found">>>>]
    ELSE IF MkdirRaises(output)
    THEN [ok |-> FALSE, out |-> <<<<"error_during_conversion">>>>]
    ELSE IF env.docx2pdf = "raises" \/ ~input.sound
    THEN [ok |-> FALSE, out |-> <<<<"converting_docx2pdf", input.name>>,
                                  <<"error_during_conversion">>>>]
    ELSE IF env.docx2pdf = "no_output"
    THEN [ok |-> FALSE, out |-> <<<<"converting_docx2pdf", input.name>>,
                                  <<"error_no_output">>>>]
    ELSE [ok |-> TRUE, out |-> <<<<"converting_docx2pdf", input.name>>,
                                 <<"success", input.name>>>>]

\* convert_with_libreoffice: [ok, out]
ConvertWithLibreoffice(env, input, output) ==
    LET renames == output.given /\ output.name # Stem(input.name) \o DotPdf
    IN  IF env.libreoffice = "not_installed"
        THEN \* subprocess.run raises FileNotFoundError, or --version returns non-zero
             [ok |-> FALSE, out |-> <<<<"libreoffice_unavailable">>>>]
        ELSE IF env.libreoffice = "convert_fails" \/ ~input.sound
        THEN [ok |-> FALSE, out |-> <<<<"converting_libreoffice", input.name>>,
                                      <<"error_stderr">>>>]
        ELSE IF env.libreoffice = "rename_fails" /\ renames
        THEN [ok |-> FALSE, out |-> <<<<"converting_libreoffice", input.name>>,
                                      <<"error_during_libreoffice">>>>]
        ELSE [ok |-> TRUE, out |-> <<<<"converting_libreoffice", input.name>>,
                                     <<"success", input.name>>>>]

\* convert_with_python_libs: [ok, out]
ConvertWithPythonLibs(env, input, output) ==
    IF env.pylibs = "missing"
    THEN [ok |-> FALSE, out |-> <<<<"library_not_found">>>>]
    ELSE IF env.pylibs = "raises" \/ ~input.sound
    THEN [ok |-> FALSE, out |-> <<<<"converting_python", input.name>>,
                                  <<"error_during_python">>>>]
    ELSE [ok |-> TRUE, out |-> <<<<"converting_python", input.name>>,
                                 <<"success", input.name>>, <<"note_basic">>>>]

is_windows(env) == env.system = "windows"
is_linux(env) == env.system = "linux"

\* what a call of one engine adds to the result of convert_word_to_pdf
Engine(name, r) ==
    [ret |-> RetBool(r.ok), raised |-> FALSE, out |-> r.out,
     attempted |-> <<[engine |-> name, ok |-> r.ok]>>]

AutoNoFallback(env, input, output) ==
    IF is_windows(env)
    THEN Engine("docx2pdf", ConvertWithDocx2pdf(env, input, output))
    ELSE IF is_linux(env)
    THEN Engine("libreoffice", ConvertWithLibreoffice(env, input, output))
    ELSE [ret |-> RetBool(FALSE), raised |-> FALSE,
          out |-> <<<<"unsupported_os", env.system>>>>, attempted |-> <<>>]

\* convert_word_to_pdf, lines 171-185: method 'auto'
Auto(env, input, output) ==
    IF is_windows(env)
    THEN Engine("docx2pdf", ConvertWithDocx2pdf(env, input, output))
    ELSE IF is_linux(env)
    THEN LET success == ConvertWithLibreoffice(env, input, output)
             fallback == ConvertWithPythonLibs(env, input, output)
         IN  IF ~success.ok
             THEN [ret |-> RetBool(fallback.ok), raised |-> FALSE,
                   out |-> success.out \o <<<<"libreoffice_failed_trying_python">>>>
                           \o fallback.out,
                   attempted |-> <<[engine |-> "libreoffice", ok |-> FALSE],
                                   [engine |-> "python", ok |-> fallback.ok]>>]
             ELSE Engine("libreoffice", success)
    ELSE [ret |-> RetBool(FALSE), raised |-> FALSE,
          out |-> <<<<"unsupported_os", env.system>>>>, attempted |-> <<>>]

\* convert_word_to_pdf, lines 188-198: a method chosen by hand
Manual(env, input, output, method) ==
    IF method = "windows"
    THEN LET r == Engine("docx2pdf", ConvertWithDocx2pdf(env, input, output))
         IN  IF is_windows(env) THEN r
             ELSE [r EXCEPT !.out = <<<<"warning_not_windows">>>> \o @]
    ELSE IF method = "libreoffice"
    THEN Engine("libreoffice", ConvertWithLibreoffice(env, input, output))
    ELSE IF method = "python"
    THEN Engine("python", ConvertWithPythonLibs(env, input, output))
    ELSE [ret |-> RetBool(FALSE), raised |-> FALSE,
          out |-> <<<<"unknown_method", method>>>>, attempted |-> <<>>]

\* convert_word_to_pdf: [ret, raised, out, attempted]
ConvertWordToPdf(env, input, output, method) ==
    IF ~input.exists
    THEN [ret |-> RetBool(FALSE), raised |-> FALSE,
          out |-> <<<<"input_not_found", input.name>>>>, attempted |-> <<>>]
    ELSE IF ~EndsWith(Lower(input.name), DotDocx)
    THEN [ret |-> RetBool(FALSE), raised |-> FALSE,
          out |-> <<<<"must_be_docx">>>>, attempted |-> <<>>]
    ELSE IF MkdirRaises(output)
    THEN \* output_dir.mkdir(...) is outside every try: the exception leaves
         [ret |-> RetNone, raised |-> TRUE, out |-> <<>>, attempted |-> <<>>]
    ELSE LET r == IF method = "auto" THEN Auto(env, input, output)
                  ELSE Manual(env, input, output, method)
         IN  [r EXCEPT !.out = <<<<"detected_os", env.system>>>> \o @]

\* --------------------------------------------------------- pdf_to_word.py

\* convert_pdf_to_word: [ret, raised, out, attempted]
ConvertPdfToWord(env, input, output) ==
    IF ~input.exists
    THEN [ret |-> RetBool(FALSE), raised |-> FALSE,
          out |-> <<<<"input_not_found", input.name>>>>, attempted |-> <<>>]
    ELSE IF Lower(Suffix(input.name)) # DotPdf
    THEN [ret |-> RetBool(FALSE), raised |-> FALSE,
          out |-> <<<<"must_be_pdf">>>>, attempted |-> <<>>]
    ELSE IF MkdirRaises(output)
    THEN \* inside the try: except Exception
         [ret |-> RetBool(FALSE), raised |-> FALSE,
          out |-> <<<<"error_during_conversion">>>>, attempted |-> <<>>]
    ELSE IF env.pdf2docx = "raises" \/ ~input.sound
    THEN [ret |-> RetBool(FALSE), raised |-> FALSE,
          out |-> <<<<"converting", input.name>>, <<"error_during_conversion">>>>,
          attempted |-> <<[engine |-> "pdf2docx", ok |-> FALSE]>>]
    ELSE IF env.pdf2docx = "no_output"
    THEN [ret |-> RetBool(FALSE), raised |-> FALSE,
          out |-> <<<<"converting", input.name>>, <<"error_no_output">>>>,
          attempted |-> <<[engine |-> "pdf2docx", ok |-> FALSE]>>]
    ELSE [ret |-> RetBool(TRUE), raised |-> FALSE,
          out |-> <<<<"converting", input.name>>, <<"success", input.name>>>>,
          attempted |-> <<[engine |-> "pdf2docx", ok |-> TRUE]>>]

\* ---------------------------------------------------------------- main.py

\* the conversion a mode selects: convert_word_to_pdf(src, out) or
\* convert_pdf_to_word(src, out)
Convert(mode, env, input, output) ==
    IF mode = "word2pdf" THEN ConvertWordToPdf(env, input, output, "auto")
    ELSE ConvertPdfToWord(env, input, output)

\* process_single(mode, inp, out): [raised, exit, out, attempted, processed]
ProcessSingle(mode, env, input, output) ==
    IF ~input.exists
    THEN [raised |-> FALSE, exit |-> "1", out |-> <<<<"input_does_not_exist", input.name>>>>,
          attempted |-> <<>>, processed |-> <<>>]
    ELSE LET base_name == SplitExtRoot(input.name)
             default == IF mode = "word2pdf" THEN base_name \o DotPdf
                        ELSE base_name \o DotDocx
             \* a default output lies in the working directory
             out == IF output.given THEN output ELSE DocOutput(TRUE, "exists", default)
             head == (IF output.given THEN <<>> ELSE <<<<"using_default_output", default>>>>)
                     \o <<<<"processing_file", input.name>>>>
             r == Convert(mode, env, input, out)
         IN  IF r.raised
             THEN [raised |-> TRUE, exit |-> "1", out |-> head \o r.out,
                   attempted |-> r.attempted, processed |-> <<>>]
             ELSE [raised |-> FALSE, exit |-> "0",
                   out |-> head \o r.out \o <<<<"file_converted_successfully", out.name>>>>,
                   attempted |-> r.attempted,
                   processed |-> <<[item |-> input.name, ok |-> r.ret.val]>>]

\* the file name process_batch gives the output of fname, or <<>> when it skips fname
OutName(mode, fname) ==
    IF mode = "word2pdf" /\ (EndsWith(Lower(fname), DotDocx) \/ EndsWith(Lower(fname), DotDoc))
    THEN SplitExtRoot(fname) \o DotPdf
    ELSE IF mode = "pdf2word" /\ EndsWith(Lower(fname), DotPdf)
    THEN SplitExtRoot(fname) \o DotDocx
    ELSE <<>>

\* the loop of process_batch over os.listdir(input_folder)
RECURSIVE BatchLoop(_, _, _, _, _)
BatchLoop(mode, env, listing, i, acc) ==
    IF i > Len(listing) \/ acc.raised THEN acc
    ELSE LET f == listing[i]
             out_name == OutName(mode, f.name)
             r == Convert(mode, env, f, DocOutput(TRUE, "exists", out_name))
             step == IF out_name = <<>> THEN acc
                     ELSE IF r.raised
                     THEN [acc EXCEPT !.raised = TRUE,
                                      !.out = @ \o <<<<"converting", f.name, out_name>>>> \o r.out]
                     ELSE [acc EXCEPT !.out = @ \o <<<<"converting", f.name, out_name>>>> \o r.out,
                                      !.attempted = @ \o r.attempted,
                                      !.processed = Append(@, [item |-> f.name, ok |-> r.ret.val])]
         IN  BatchLoop(mode, env, listing, i + 1, step)

\* process_batch(mode, input_folder, output_folder): [raised, exit, out, attempted, processed]
ProcessBatch(mode, env, input_folder, output_folder) ==
    IF ~input_folder.isdir
    THEN [raised |-> FALSE, exit |-> "1", out |-> <<<<"input_folder_does_not_exist">>>>,
          attempted |-> <<>>, processed |-> <<>>]
    ELSE IF output_folder = "blocked"
    THEN \* os.makedirs(output_folder, exist_ok=True) raises
         [raised |-> TRUE, exit |-> "1", out |-> <<>>, attempted |-> <<>>, processed |-> <<>>]
    ELSE LET r == BatchLoop(mode, env, input_folder.listing, 1,
                            [raised |-> FALSE, out |-> <<<<"processing_all_files">>>>,
                             attempted |-> <<>>, processed |-> <<>>])
         IN  IF r.raised
             THEN [raised |-> TRUE, exit |-> "1", out |-> r.out,
                   attempted |-> r.attempted, processed |-> r.processed]
             ELSE [raised |-> FALSE, exit |-> "0",
                   out |-> Append(r.out, <<"batch_processing_completed">>),
                   attempted |-> r.attempted, processed |-> r.processed]

\* --------------------------------------------------------------- inputs

PageSizeStrings ==
    { <<"A", "4">>, <<"a", "4">>, <<"L", "e", "t", "t", "e", "r">>,
      <<"4", "x", "6">>, <<"8", ".", "5", "x", "1", "1">>,
      <<"0", "x", "5">>, <<"-", "2", "x", "3">>, <<"4", "X", "6">>,
      <<"b", "5">>, <<"2", "x", "3", "x", "4">>, <<>> }

CliPageSizeStrings == { <<"A", "4">>, <<"4", "x", "6">>, <<"b", "5">> }

MarginStrings == { <<"0", ".", "5">>, <<"5">>, <<"-", "1">>, <<"w", "i", "d", "e">> }

\* margins in inches
Margins == {RInt(0), Rat(1, 2), RInt(5), RInt(-1)}

CliImageLists == SeqsUpTo({Landscape, Missing, NotImage, Truncated}, MaxImages - 1)

\* file names
ADocx == <<"a", ".", "d", "o", "c", "x">>
BDocxUpper == <<"b", ".", "D", "O", "C", "X">>
CDoc == <<"c", ".", "d", "o", "c">>
DPdf == <<"d", ".", "p", "d", "f">>
EPdfUpper == <<"e", ".", "P", "D", "F">>
HiddenPdf == <<".", "p", "d", "f">>
FTxt == <<"f", ".", "t", "x", "t">>
OutPdfName == <<"o", ".", "p", "d", "f">>
OutDocxName == <<"o", ".", "d", "o", "c", "x">>

File(name, exists, sound) == [name |-> name, exists |-> exists, sound |-> sound]

\* the files handed to one conversion
DocInputs ==
    {File(n, TRUE, TRUE) : n \in {ADocx, BDocxUpper, CDoc, DPdf, EPdfUpper, HiddenPdf}}
    \cup {File(ADocx, FALSE, FALSE), File(ADocx, TRUE, FALSE),
          File(DPdf, FALSE, FALSE), File(DPdf, TRUE, FALSE)}

\* the files of a folder listing
FolderFiles ==
    {File(n, TRUE, TRUE) : n \in {ADocx, CDoc, DPdf, HiddenPdf, FTxt}}
    \cup {File(ADocx, TRUE, FALSE), File(DPdf, TRUE, FALSE)}

Systems == {"windows", "linux", "darwin"}

\* the hosts: the platform and how each engine behaves on a sound file
Envs ==
    [system : Systems,
     docx2pdf : {"missing", "raises", "no_output", "ok"},
     libreoffice : {"not_installed", "convert_fails", "rename_fails", "ok"},
     pylibs : {"missing", "raises", "ok"},
     pdf2docx : {"ok"}]

Pdf2docxEnvs ==
    [system : {"linux"}, docx2pdf : {"ok"}, libreoffice : {"ok"}, pylibs : {"ok"},
     pdf2docx : {"raises", "no_output", "ok"}]

BatchEnvs ==
    { [system |-> "linux", docx2pdf |-> "missing", libreoffice |-> "ok",
       pylibs |-> "ok", pdf2docx |-> "ok"],
      [system |-> "linux", docx2pdf |-> "missing", libreoffice |-> "not_installed",
       pylibs |-> "ok", pdf2docx |-> "raises"],
      [system |-> "windows", docx2pdf |-> "ok", libreoffice |-> "not_installed",
       pylibs |-> "missing", pdf2docx |-> "ok"],
      [system |-> "darwin", docx2pdf |-> "missing", libreoffice |-> "not_installed",
       pylibs |-> "ok", pdf2docx |-> "no_output"] }

Methods == {"auto", "windows", "libreoffice", "python", "word"}
Modes == {"word2pdf", "pdf2word"}

DocOutputs(name) ==
    {DocOutput(FALSE, "exists", <<>>)}
    \cup {DocOutput(TRUE, d, name) : d \in {"exists", "creatable", "blocked"}}

\* -------------------------------------------------------------- actions

Init ==
    /\ op = "none"
    /\ inp = NoInput
    /\ converter = NoConverter
    /\ canvas = NoDoc
    /\ ret = RetNone
    /\ raised = FALSE
    /\ stdout = <<>>
    /\ exit = NoExit
    /\ attempted = <<>>
    /\ processed = <<>>

\* ImageToPdfConverter(page_size, margin)
Construct ==
    /\ op = "none"
    /\ \E page_size \in PageSizeStrings, margin \in Margins :
          /\ inp' = [page_size |-> page_size, margin |-> margin]
          /\ converter' = NewConverter(page_size, margin)
          /\ stdout' = GetPageSize(page_size).out
    /\ op' = "init"
    /\ UNCHANGED <<canvas, ret, raised, exit, attempted, processed>>

\* converter.convert_single_image(image_path, output_path)
SingleImage ==
    /\ op = "init"
    /\ \E img \in GoodImages \cup BadImages, given \in BOOLEAN, writable \in BOOLEAN :
          \E r \in {ConvertSingleImage(converter, img, Output(given, writable))} :
              /\ inp' = [image |-> img, output |-> Output(given, writable)]
              /\ canvas' = r.canvas
              /\ ret' = r.ret
              /\ stdout' = r.out
    /\ op' = "single"
    /\ UNCHANGED <<converter, raised, exit, attempted, processed>>

\* converter.convert_multiple_images(image_paths, output_path, layout)
MultipleImages ==
    /\ op = "init"
    /\ \E image_paths \in SeqsUpTo(ListPool, MaxImages), writable \in BOOLEAN,
          layout \in Layouts :
          \E r \in {ConvertMultipleImages(converter, image_paths,
                                           Output(TRUE, writable), layout)} :
              /\ inp' = [image_paths |-> image_paths, output |-> Output(TRUE, writable),
                         layout |-> layout]
              /\ canvas' = r.canvas
              /\ ret' = r.ret
              /\ stdout' = r.out
    /\ op' = "multi"
    /\ UNCHANGED <<converter, raised, exit, attempted, processed>>

\* python image_to_pdf.py images... [-o output] [-m multiple] [-s size] [-l layout] [--margin m]
ImageCli ==
    /\ op = "none"
    /\ \E images \in CliImageLists, o \in BOOLEAN, m \in BOOLEAN, writable \in BOOLEAN,
          size \in CliPageSizeStrings, layout \in Layouts, margin \in MarginStrings :
          \E args \in {[images |-> images, output |-> Output(o, TRUE),
                         multiple |-> Output(m, writable), size |-> size,
                         layout |-> layout, margin |-> margin]} :
          \E r \in {ImageMain(args)} :
              /\ inp' = args
              /\ converter' = r.converter
              /\ canvas' = r.canvas
              /\ ret' = r.ret
              /\ stdout' = r.out
              /\ exit' = r.exit
    /\ op' = "image_cli"
    /\ UNCHANGED <<raised, attempted, processed>>

\* convert_word_to_pdf(input_path, output_path, method)
WordToPdf ==
    /\ op = "none"
    /\ \E env \in Envs, input \in {f \in DocInputs : f.name \in {ADocx, BDocxUpper, CDoc}},
          output \in DocOutputs(OutPdfName), method \in Methods :
          \E r \in {ConvertWordToPdf(env, input, output, method)} :
              /\ inp' = [env |-> env, input |-> input, output |-> output, method |-> method]
              /\ ret' = r.ret
              /\ raised' = r.raised
              /\ stdout' = r.out
              /\ attempted' = r.attempted
    /\ op' = "word2pdf"
    /\ UNCHANGED <<converter, canvas, exit, processed>>

\* convert_pdf_to_word(input_path, output_path)
PdfToWord ==
    /\ op = "none"
    /\ \E env \in Pdf2docxEnvs, input \in DocInputs, output \in DocOutputs(OutDocxName) :
          \E r \in {ConvertPdfToWord(env, input, output)} :
              /\ inp' = [env |-> env, input |-> input, output |-> output]
              /\ ret' = r.ret
              /\ raised' = r.raised
              /\ stdout' = r.out
              /\ attempted' = r.attempted
    /\ op' = "pdf2word"
    /\ UNCHANGED <<converter, canvas, exit, processed>>

\* python main.py --mode mode --input inp [--output out]
SingleFile ==
    /\ op = "none"
    /\ \E mode \in Modes, env \in BatchEnvs, input \in DocInputs,
          output \in DocOutputs(OutPdfName) :
          \E r \in {ProcessSingle(mode, env, input, output)} :
              /\ inp' = [mode |-> mode, env |-> env, input |-> input, output |-> output]
              /\ raised' = r.raised
              /\ exit' = r.exit
              /\ stdout' = r.out
              /\ attempted' = r.attempted
              /\ processed' = r.processed
    /\ op' = "single_file"
    /\ UNCHANGED <<converter, canvas, ret>>

\* python main.py --mode mode --batch --input-folder f --output-folder g
Batch ==
    /\ op = "none"
    /\ \E mode \in Modes, env \in BatchEnvs, isdir \in BOOLEAN,
          listing \in SeqsUpTo(FolderFiles, MaxFiles),
          output_folder \in {"exists", "creatable", "blocked"} :
          /\ (~isdir => listing = <<>>)
          /\ \E r \in {ProcessBatch(mode, env, [isdir |-> isdir, listing |-> listing],
                                    output_folder)} :
              /\ inp' = [mode |-> mode, env |-> env,
                         input_folder |-> [isdir |-> isdir, listing |-> listing],
                         output_folder |-> output_folder]
              /\ raised' = r.raised
              /\ exit' = r.exit
              /\ stdout' = r.out
              /\ attempted' = r.attempted
              /\ processed' = r.processed
    /\ op' = "batch"
    /\ UNCHANGED <<converter, canvas, ret>>

Next ==
    \/ Construct
    \/ SingleImage
    \/ MultipleImages
    \/ ImageCli
    \/ WordToPdf
    \/ PdfToWord
    \/ SingleFile
    \/ Batch

Spec == Init /\ [][Next]_vars

\* ---------------------------------------------------------- properties

AllImages == GoodImages \cup BadImages
ImageOf(path) == CHOOSE img \in AllImages : img.path = path

\* every image drawn in the saved document, with the page it is on
Draws == {<<k, j>> \in (1..Len(canvas)) \X (1..MaxImages + 1) : j <= Len(canvas[k])}

ImageOp == op \in {"single", "multi", "image_cli"}

UsableWidth(self) == RSub(self.page_size[1], RMul(RInt(2), self.margin))
UsableHeight(self) == RSub(self.page_size[2], RMul(RInt(2), self.margin))

\* the scale the specification states: the smaller of the two axis-fit ratios
StatedScale(self, img) ==
    RMin(RDiv(UsableWidth(self), RInt(img.w)), RDiv(UsableHeight(self), RInt(img.h)))

\* the placement the specification states
StatedPlacement(self, img) ==
    [x |-> RDiv(RSub(self.page_size[1], RMul(RInt(img.w), StatedScale(self, img))), RInt(2)),
     y |-> RDiv(RSub(self.page_size[2], RMul(RInt(img.h), StatedScale(self, img))), RInt(2)),
     width |-> RMul(RInt(img.w), StatedScale(self, img)),
     height |-> RMul(RInt(img.h), StatedScale(self, img))]

PlacementOf(d) == [x |-> d.x, y |-> d.y, width |-> d.width, height |-> d.height]

Centred(self, d) ==
    /\ RAdd(d.x, RDiv(d.width, RInt(2))) = RDiv(self.page_size[1], RInt(2))
    /\ RAdd(d.y, RDiv(d.height, RInt(2))) = RDiv(self.page_size[2], RInt(2))

\* C1: for every list of input images and every layout tag the multi-image
\* composition yields exactly one page per input image, page k showing the k-th
\* input image; for the empty list it yields no page and returns without error.
C1_OnePagePerImage ==
    (op = "multi" /\ inp.output.writable) =>
        /\ ret = RetPath(inp.output.path)
        /\ Len(canvas) = Len(inp.image_paths)
        /\ \A k \in 1..Len(canvas) :
              /\ Len(canvas[k]) = 1
              /\ canvas[k][1].image = inp.image_paths[k].path

\* C2: in the single-image path and in the multi-image path every image is drawn
\* with scale = min((pageWidth - 2*margin)/imgWidth, (pageHeight - 2*margin)/imgHeight)
\* at x = (pageWidth - imgWidth*scale)/2, y = (pageHeight - imgHeight*scale)/2, so
\* it is centred on the page, and the two paths place the same image the same way.
C2_PlacementFormula ==
    ImageOp =>
        \A kj \in Draws :
            LET d == canvas[kj[1]][kj[2]]
                img == ImageOf(d.image)
            IN  /\ PlacementOf(d) = StatedPlacement(converter, img)
                /\ Centred(converter, d)
                /\ PlacementOf(d) = SinglePlacement(converter, img)
                /\ PlacementOf(d) = VerticalPlacement(converter, img,
                                        converter.page_size[1], converter.page_size[2])

\* a two-page document whose second page shows a non-square image inside real margins
C2_Witness ==
    /\ op = "multi"
    /\ Len(canvas) = 2
    /\ Len(canvas[2]) = 1
    /\ canvas[2][1].image = Portrait.path
    /\ canvas[2][1].width # canvas[2][1].height
    /\ RPos(converter.margin)

\* C3: the drawn image never exceeds the usable area and never overlaps the
\* margin: width <= pageWidth - 2*margin, height <= pageHeight - 2*margin,
\* x >= margin, y >= margin, x + width <= pageWidth - margin and
\* y + height <= pageHeight - margin, whatever geometry the converter holds.
C3_InsideMargins ==
    ImageOp =>
        \A kj \in Draws :
            LET d == canvas[kj[1]][kj[2]]
                m == converter.margin
            IN  /\ RLe(d.width, UsableWidth(converter))
                /\ RLe(d.height, UsableHeight(converter))
                /\ RLe(m, d.x)
                /\ RLe(m, d.y)
                /\ RLe(RAdd(d.x, d.width), RSub(converter.page_size[1], m))
                /\ RLe(RAdd(d.y, d.height), RSub(converter.page_size[2], m))

\* an image drawn on a page whose usable width is negative
C3_Witness ==
    /\ op \in {"single", "multi"}
    /\ Len(canvas) >= 1
    /\ Len(canvas[1]) = 1
    /\ RLt(UsableWidth(converter), RInt(0))
    /\ RPos(UsableHeight(converter))

\* C4: with layout 'horizontal' or 'grid' convert_multiple_images produces the
\* same page breaks and image placements, in the same order, as with 'vertical'.
C4_LayoutsCollapse ==
    (op = "multi" /\ inp.layout \in {"horizontal", "grid"}) =>
        /\ canvas = ConvertMultipleImages(converter, inp.image_paths,
                                          inp.output, "vertical").canvas
        /\ ret = ConvertMultipleImages(converter, inp.image_paths,
                                       inp.output, "vertical").ret

\* a grid document of three pages, one image each
C4_Witness ==
    /\ op = "multi"
    /\ inp.layout = "grid"
    /\ Len(canvas) = 3
    /\ \A k \in 1..3 : Len(canvas[k]) = 1

UnknownLayoutWarned == \E i \in 1..Len(stdout) : stdout[i][1] = "unknown_layout"

\* C5 as stated: given a layout tag that is none of 'vertical', 'horizontal',
\* 'grid', no entry point that takes a layout tag fails: convert_multiple_images
\* and the command line's -l/--layout both warn and produce the output of 'vertical'.
C5_UnknownLayoutEverywhere ==
    /\ (op = "multi" /\ inp.layout \notin KnownLayouts) =>
          /\ ~raised
          /\ UnknownLayoutWarned
          /\ canvas = ConvertMultipleImages(converter, inp.image_paths,
                                            inp.output, "vertical").canvas
    /\ (op = "image_cli" /\ inp.layout \notin KnownLayouts
          /\ ParseArgsOk([inp EXCEPT !.layout = "vertical"])) =>
          /\ exit = "0"
          /\ (Len(inp.images) > 1 => UnknownLayoutWarned)
          /\ canvas = ImageMain([inp EXCEPT !.layout = "vertical"]).canvas

\* C5: given a layout tag that is none of 'vertical', 'horizontal', 'grid',
\* convert_multiple_images does not fail: it prints a warning first and produces
\* the pages and the return value of 'vertical'. The command line never hands
\* such a tag on: argparse rejects it with exit status 2 before any image is
\* read, no converter is built, nothing is written and no warning is printed.
C5_UnknownLayout ==
    /\ (op = "multi" /\ inp.layout \notin KnownLayouts) =>
          /\ ~raised
          /\ Len(stdout) >= 1
          /\ stdout[1] = <<"unknown_layout", inp.layout>>
          /\ canvas = ConvertMultipleImages(converter, inp.image_paths,
                                            inp.output, "vertical").canvas
          /\ ret = ConvertMultipleImages(converter, inp.image_paths,
                                         inp.output, "vertical").ret
    /\ (op = "image_cli" /\ inp.layout \notin KnownLayouts) =>
          /\ exit = "2"
          /\ converter = NoConverter
          /\ canvas = NoDoc
          /\ ret = RetNone
          /\ ~UnknownLayoutWarned

\* convert_multiple_images with the tag 'diagonal' wrote two pages of one image each
C5_Witness ==
    /\ op = "multi"
    /\ inp.layout = "diagonal"
    /\ Len(canvas) = 2
    /\ Len(canvas[1]) = 1
    /\ Len(canvas[2]) = 1
    /\ ret = RetPath(inp.output.path)

\* C9: a converter never holds a degenerate geometry: margin >= 0,
\* pageWidth - 2*margin > 0 and pageHeight - 2*margin > 0, so no image is
\* ever drawn with a zero or negative width or height.
C9_GeometryRejected ==
    /\ converter # NoConverter =>
          /\ RLe(RInt(0), converter.margin)
          /\ RPos(UsableWidth(converter))
          /\ RPos(UsableHeight(converter))
    /\ ImageOp =>
          \A kj \in Draws : /\ RPos(canvas[kj[1]][kj[2]].width)
                            /\ RPos(canvas[kj[1]][kj[2]].height)

\* a valid 'WxH' pair as specified: two numbers, both positive
ValidPair(page_size) ==
    LET parts == Split(page_size, "x")
    IN  /\ Len(parts) = 2
        /\ ParseFloat(parts[1]).ok
        /\ ParseFloat(parts[2]).ok
        /\ RPos(ParseFloat(parts[1]).val)
        /\ RPos(ParseFloat(parts[2]).val)

\* C10: 'A4' and 'LETTER' in any case select the presets, a valid 'WxH' pair
\* selects a page of W by H inches, every other value selects A4 with a
\* warning; the selected page always has positive width and height.
C10_PageSizeSelection ==
    op = "init" =>
        LET page_size == inp.page_size
            parts == Split(page_size, "x")
            warned == stdout = <<<<"invalid_page_size", page_size>>>>
        IN  /\ RPos(converter.page_size[1])
            /\ RPos(converter.page_size[2])
            /\ IF Upper(page_size) = <<"A", "4">>
               THEN converter.page_size = A4 /\ ~warned
               ELSE IF Upper(page_size) = <<"L", "E", "T", "T", "E", "R">>
               THEN converter.page_size = letter /\ ~warned
               ELSE IF ValidPair(page_size)
               THEN /\ converter.page_size =
                          <<RMul(ParseFloat(parts[1]).val, RInt(inch)),
                            RMul(ParseFloat(parts[2]).val, RInt(inch))>>
                    /\ ~warned
               ELSE converter.page_size = A4 /\ warned

PublicConversion == op \in {"single", "multi", "word2pdf", "pdf2word"}

\* C6: no exception leaves a public conversion operation (convert_word_to_pdf,
\* convert_pdf_to_word, convert_single_image, convert_multiple_images): whatever
\* fails, a delegated call or the preparation of a path, the operation returns
\* a success or failure result.
C6_NoExceptionEscapes ==
    PublicConversion =>
        /\ ~raised
        /\ op \in {"word2pdf", "pdf2word"} => ret.kind = "bool"
        /\ op \in {"single", "multi"} => ret.kind \in {"path", "None"}

\* the files of the listing process_batch selects for conversion, in order
Selected(mode, listing) == SelectSeq(listing, LAMBDA f : OutName(mode, f.name) # <<>>)

\* the images main of image_to_pdf.py finds valid, in order
ValidImages(images) == SelectSeq(images, LAMBDA img : img.isfile /\ img.opens)

\* every image of the list was handled: drawn on the page of its position, or
\* reported with an error line
AllImagesHandled(images) ==
    \A k \in 1..Len(images) :
        \/ /\ k <= Len(canvas)
           /\ Len(canvas[k]) = 1
           /\ canvas[k][1].image = images[k].path
        \/ \E i \in 1..Len(stdout) : stdout[i] = <<"err_image", images[k].path>>

\* the part of C7 about items: in batch and multi-image mode no failing item
\* stops the run, every later item of the input sequence is still processed.
C7_ItemFailuresDoNotStop ==
    /\ (op = "batch" /\ inp.input_folder.isdir /\ inp.output_folder # "blocked") =>
          /\ ~raised
          /\ exit = "0"
          /\ Len(processed) = Len(Selected(inp.mode, inp.input_folder.listing))
          /\ \A k \in 1..Len(processed) :
                processed[k].item = Selected(inp.mode, inp.input_folder.listing)[k].name
    /\ (op = "multi" /\ inp.output.writable) => AllImagesHandled(inp.image_paths)
    /\ (op = "image_cli" /\ ParseArgsOk(inp) /\ Len(ValidImages(inp.images)) > 1
          /\ inp.multiple.writable) =>
          AllImagesHandled(ValidImages(inp.images))

\* a file of the folder that process_batch selects and this host converts
Usable(f) ==
    /\ OutName(inp.mode, f.name) # <<>>
    /\ Convert(inp.mode, inp.env, f,
               DocOutput(TRUE, "exists", OutName(inp.mode, f.name))).ret = RetBool(TRUE)

\* C7: in batch and multi-image mode no failing item stops the run, every later
\* item is still processed; the whole run is aborted only when there is no
\* usable input at all: no valid image file, or no input folder.
C7_AbortOnlyWithoutInput ==
    /\ C7_ItemFailuresDoNotStop
    /\ (op = "batch" /\ (raised \/ exit # "0")) =>
          \/ ~inp.input_folder.isdir
          \/ ~\E k \in 1..Len(inp.input_folder.listing) : Usable(inp.input_folder.listing[k])
    /\ (op = "image_cli" /\ ParseArgsOk(inp) /\ converter = NoConverter) =>
          Len(ValidImages(inp.images)) = 0

AutoRan ==
    /\ op = "word2pdf"
    /\ inp.method = "auto"
    /\ inp.input.exists
    /\ EndsWith(Lower(inp.input.name), DotDocx)
    /\ ~MkdirRaises(inp.output)

SomeAttemptSucceeded == \E i \in 1..Len(attempted) : attempted[i].ok

\* C8 as stated: in 'auto' mode, on each supported platform, the engines are
\* tried in a fixed order ending with the basic text-only reconstruction: a
\* later engine is attempted if and only if the earlier one failed, none after
\* a success, and the result is success exactly when an attempted engine succeeded.
C8_FallbackOnEveryPlatform ==
    (AutoRan /\ inp.env.system \in {"windows", "linux"}) =>
        /\ Len(attempted) >= 1
        /\ \A i \in 1..Len(attempted) - 1 : ~attempted[i].ok
        /\ ~attempted[Len(attempted)].ok => attempted[Len(attempted)].engine = "python"
        /\ ret = RetBool(SomeAttemptSucceeded)

\* C8: in 'auto' mode on Linux LibreOffice is tried first and the basic
\* text-only reconstruction is tried if and only if LibreOffice was unavailable
\* or failed; on Windows docx2pdf is the only engine tried, with no fallback; on
\* any other platform no engine is tried and the result is failure. No engine is
\* tried after one has succeeded, and the result is success exactly when an
\* attempted engine succeeded.
C8_Fallback ==
    AutoRan =>
        /\ ~raised
        /\ ret = RetBool(SomeAttemptSucceeded)
        /\ \A i \in 1..Len(attempted) - 1 : ~attempted[i].ok
        /\ inp.env.system = "linux" =>
              /\ Len(attempted) \in {1, 2}
              /\ attempted[1].engine = "libreoffice"
              /\ Len(attempted) = 2 <=> ~attempted[1].ok
              /\ Len(attempted) = 2 => attempted[2].engine = "python"
        /\ inp.env.system = "windows" =>
              /\ Len(attempted) = 1
              /\ attempted[1].engine = "docx2pdf"
        /\ inp.env.system \notin {"windows", "linux"} => attempted = <<>>

\* on Linux LibreOffice failed and the text-only reconstruction then succeeded
C8_Witness ==
    /\ AutoRan
    /\ inp.env.system = "linux"
    /\ Len(attempted) = 2
    /\ ~attempted[1].ok
    /\ attempted[2].ok
    /\ ret = RetBool(TRUE)

HasLine(tag) == \E i \in 1..Len(stdout) : stdout[i][1] = tag

\* the number of lines of out that carry tag
RECURSIVE CountLines(_, _)
CountLines(out, tag) ==
    IF out = <<>> THEN 0
    ELSE (IF Head(out)[1] = tag THEN 1 ELSE 0) + CountLines(Tail(out), tag)

FailureLines ==
    {"input_not_found", "must_be_docx", "must_be_pdf", "unsupported_os",
     "docx2pdf_not_found", "libreoffice_unavailable", "library_not_found",
     "error_during_conversion", "error_no_output", "error_stderr",
     "error_during_libreoffice", "error_during_python"}

OkItems == SelectSeq(processed, LAMBDA p : p.ok)

\* the part of C11 about the converters' own lines: process_batch and the image
\* operations print a success line only for a conversion that succeeded, and a
\* failure line for each one that failed.
C11_ConvertersReport ==
    /\ (op = "batch" /\ ~raised) =>
          /\ CountLines(stdout, "success") = Len(OkItems)
          /\ Len(OkItems) < Len(processed) => \E t \in FailureLines : HasLine(t)
    /\ op = "single" =>
          /\ HasLine("ok_single") <=> ret # RetNone
          /\ HasLine("err_single") <=> ret = RetNone
    /\ op = "multi" =>
          /\ HasLine("ok_multi") <=> ret # RetNone
          /\ HasLine("err_multi") <=> ret = RetNone
          /\ \A k \in 1..Len(inp.image_paths) :
                ~inp.image_paths[k].opens =>
                    \E i \in 1..Len(stdout) :
                        stdout[i] = <<"err_image", inp.image_paths[k].path>>

\* C11: every processed item gets a status line that reflects its outcome: a
\* success line for an item or for the produced output file is printed only
\* if that conversion succeeded, and a failed conversion is reported as a
\* failure with its reason; in process_single, process_batch and the single and
\* multi-image operations of the image converter.
C11_StatusReflectsOutcome ==
    /\ C11_ConvertersReport
    /\ op = "single_file" =>
          /\ HasLine("file_converted_successfully") =>
                (processed # <<>> /\ processed[1].ok)
          /\ (processed # <<>> /\ ~processed[1].ok) =>
                \E t \in FailureLines : HasLine(t)

\* C12: process_batch and the converters agree on which inputs are convertible:
\* every file the batch selects in a mode (.docx or .doc for word2pdf, .pdf for
\* pdf2word, case-insensitively) passes the extension validation of the
\* converter it is handed to, so no selected file is rejected for its extension.
C12_SelectedPassValidation ==
    (op = "batch" /\ inp.input_folder.isdir /\ inp.output_folder # "blocked") =>
        /\ Len(processed) = Len(Selected(inp.mode, inp.input_folder.listing))
        /\ ~HasLine("must_be_docx")
        /\ ~HasLine("must_be_pdf")

====
